---- MODULE Spec2Model ----
(***************************************************************************)
(* Buffer pool subsystem of BusTub: the extendible hash page directory,    *)
(* the LRU-K replacer and the buffer pool manager instance.                *)
(*                                                                         *)
(* Spec     : the buffer pool manager driving its own directory/replacer.  *)
(* SpecData : Spec with callers that write to the pages they hold.         *)
(* SpecHT   : the extendible hash table on its own (insert / remove).      *)
(* SpecLRU  : the LRU-K replacer on its own, with its latch.               *)
(* SpecRace : Find run by one thread beside Insert run by another.         *)
(* SpecLRUPlain : the plain LRU replacer (Victim / Pin / Unpin).           *)
(***************************************************************************)
EXTENDS Integers, Sequences, FiniteSets, TLC

\* ------------------------------------------------------------------ bounds
\* new_page calls explored: it hands out the page ids 0 .. MaxNew-1
MaxNew == 1
\* number of RecordAccess calls explored (current_timestamp_ is unbounded)
MaxTime == 5
\* page contents are 0 (zeroed buffer) .. MaxVal
MaxVal == 1
\* WriteUnpin steps explored
MaxWrites == 1
\* live entries of the stand-alone directory
MaxLive == 2
\* values stored in the stand-alone directory are 0 .. MaxValueHT-1
MaxValueHT == 2
\* the split loop is followed up to this global depth
MaxDepth == 6

\* pool_size: frames of the pool, and replacer_size_ of its replacer
PoolSize == 2
\* bucket_size_: entries a directory bucket holds
BucketSize == 1
\* replacer_size_ of the replacer explored on its own
ReplacerSize == 3
\* RecordAccess calls explored on the replacer on its own
MaxTimeLRU == 6
\* num_pages of the plain LRU replacer
NumPages == 3

\* ------------------------------------------------------- program constants
\* replacer_k
ReplacerK == 2
INVALID_PAGE_ID == -1

NoFrame == -1
NoValue == -1

Pow2(n) == 2 ^ n

\* ===================================================== extendible hash table
\* A table is [global_depth, dir, buckets, num_buckets]; dir is the vector of
\* shared_ptr<Bucket> (slot i of the code is dir[i+1]), buckets the heap of
\* Bucket objects addressed by the pointer value, each [depth, list].

\* std::hash<int> is the identity on the key's bits; the masks below keep the
\* low bits only, so INVALID_PAGE_ID (all ones) hashes to all-one low bits.
Hash(key) == IF key < 0 THEN Pow2(MaxDepth + 2) + key ELSE key

IndexOfDepth(key, depth) == Hash(key) % Pow2(depth)

IndexOf(ht, key) == IndexOfDepth(key, ht.global_depth)

NewTable == [global_depth |-> 0, dir |-> <<0>>,
             buckets |-> (0 :> [depth |-> 0, list |-> <<>>]),
             num_buckets |-> 1]

BucketAt(ht, idx) == ht.buckets[ht.dir[idx + 1]]

RECURSIVE ListFind(_, _)
ListFind(list, key) ==
  IF list = <<>> THEN [found |-> FALSE, value |-> NoValue]
  ELSE LET rest == ListFind(Tail(list), key)
       IN IF rest.found THEN rest
          ELSE IF Head(list)[1] = key
               THEN [found |-> TRUE, value |-> Head(list)[2]]
               ELSE rest

BucketFind(b, key) == ListFind(b.list, key)

RECURSIVE ListRemove(_, _)
ListRemove(list, key) ==
  IF list = <<>> THEN <<>>
  ELSE IF Head(list)[1] = key THEN ListRemove(Tail(list), key)
       ELSE <<Head(list)>> \o ListRemove(Tail(list), key)

BucketRemove(b, key) == [b EXCEPT !.list = ListRemove(b.list, key)]

HasKey(list, key) == \E i \in 1..Len(list) : list[i][1] = key

\* Bucket::Insert: "ok" (appended), "full" (returns false), or "hang": on a
\* matching key the scan loop neither advances the iterator nor leaves.
BucketInsert(b, key, value) ==
  IF HasKey(b.list, key) THEN [res |-> "hang", b |-> b]
  ELSE IF Len(b.list) # BucketSize
       THEN [res |-> "ok", b |-> [b EXCEPT !.list = Append(b.list, <<key, value>>)]]
       ELSE [res |-> "full", b |-> b]

Find(ht, key) == BucketFind(BucketAt(ht, IndexOf(ht, key)), key)

Remove(ht, key) ==
  LET id == ht.dir[IndexOf(ht, key) + 1]
  IN [ht EXCEPT !.buckets[id] = BucketRemove(ht.buckets[id], key)]

FreshId(ht) == CHOOSE i \in 0..Cardinality(DOMAIN ht.buckets) : i \notin DOMAIN ht.buckets

SplitIdx(index, gd) ==
  IF index >= Pow2(gd - 1) THEN index - Pow2(gd - 1) ELSE index + Pow2(gd - 1)

\* the loop over the copied item list of RedistributeBucket; the result of
\* the inner Bucket::Insert is dropped by the code unless it spins
RECURSIVE MoveItems(_, _, _, _)
MoveItems(ht, items, index, depth) ==
  IF items = <<>> THEN [res |-> "ok", ht |-> ht]
  ELSE LET k == Head(items)[1]
           v == Head(items)[2]
           to == IndexOfDepth(k, depth)
       IN IF to # index
          THEN LET src == ht.dir[index + 1]
                   h1 == [ht EXCEPT !.buckets[src] = BucketRemove(ht.buckets[src], k)]
                   dst == h1.dir[to + 1]
                   r == BucketInsert(h1.buckets[dst], k, v)
                   h2 == [h1 EXCEPT !.buckets[dst] = r.b]
               IN IF r.res = "hang" THEN [res |-> "hang", ht |-> h1]
                  ELSE MoveItems(h2, Tail(items), index, depth)
          ELSE MoveItems(ht, Tail(items), index, depth)

RedistributeBucket(ht, id, index) ==
  LET grow == ht.buckets[id].depth = ht.global_depth
      h1 == IF grow
            THEN [ht EXCEPT !.dir = ht.dir \o ht.dir, !.global_depth = ht.global_depth + 1]
            ELSE ht
      h2 == [h1 EXCEPT !.buckets[id].depth = @ + 1]
      depth == h2.buckets[id].depth
      items == h2.buckets[id].list
      split_idx == SplitIdx(index, h2.global_depth)
      nid == FreshId(h2)
      h3 == [h2 EXCEPT !.dir[split_idx + 1] = nid,
                       !.buckets = (nid :> [depth |-> depth, list |-> <<>>]) @@ h2.buckets]
  IN MoveItems(h3, items, index, depth)

\* shared_ptr ownership: a bucket no directory slot refers to is destroyed
Collect(ht) ==
  [ht EXCEPT !.buckets = [i \in {ht.dir[s] : s \in 1..Len(ht.dir)} |-> ht.buckets[i]]]

Items(b) == {b.list[i] : i \in 1..Len(b.list)}

\* A doubling round entered with every hash involved below 2^global_depth that
\* leaves the full bucket's items where they are is repeated unchanged by the
\* next pass of the while (true) loop, and by every pass after it.
SplitRepeats(ht, id, key, after) ==
  /\ ht.buckets[id].depth = ht.global_depth
  /\ Hash(key) < Pow2(ht.global_depth)
  /\ \A it \in Items(ht.buckets[id]) : Hash(it[1]) < Pow2(ht.global_depth)
  /\ Items(after.buckets[id]) = Items(ht.buckets[id])

\* ExtendibleHashTable::Insert: the retry loop. res is "ok", or "hang" when the
\* call does not return (the bucket scan spins, or the directory doubles
\* without end), or "deep" when the directory outgrows the explored depth.
RECURSIVE Insert(_, _, _)
Insert(ht, key, value) ==
  LET idx == IndexOf(ht, key)
      id == ht.dir[idx + 1]
      r == BucketInsert(ht.buckets[id], key, value)
  IN IF r.res = "ok" THEN [res |-> "ok", ht |-> Collect([ht EXCEPT !.buckets[id] = r.b])]
     ELSE IF r.res = "hang" THEN [res |-> "hang", ht |-> ht]
     ELSE IF ht.buckets[id].depth = ht.global_depth /\ ht.global_depth >= MaxDepth
          THEN [res |-> "deep", ht |-> ht]
          ELSE LET rd == RedistributeBucket(ht, id, idx)
               IN IF rd.res = "hang" \/ SplitRepeats(ht, id, key, rd.ht)
                  THEN [res |-> "hang", ht |-> Collect(rd.ht)]
                  ELSE Insert(rd.ht, key, value)

\* ============================================================ LRU-K replacer
\* The replacer is [replacer_size, node_map, curr_size, current_timestamp];
\* node_map maps the tracked frame ids to HeapNode records [ts, evict]: ts
\* holds the last ReplacerK access timestamps, oldest first.

\* LRUKReplacer(num_frames, k)
NewReplacer(num_frames) ==
  [replacer_size |-> num_frames, node_map |-> <<>>, curr_size |-> 0,
   current_timestamp |-> 0]

Tracked(r) == DOMAIN r.node_map

\* HeapNode(k): no access yet, evictable until the owner says otherwise
HeapNode == [ts |-> <<>>, evict |-> TRUE]

AddTimeStamp(node, t) ==
  [node EXCEPT !.ts = IF Len(node.ts) < ReplacerK THEN Append(node.ts, t)
                      ELSE Append(Tail(node.ts), t)]

\* HeapNode::operator<  (a < b: b is the better victim): a node with fewer
\* than k accesses has infinite backward k-distance, the earliest access first
NodeLess(a, b) ==
  IF Len(b.ts) < ReplacerK
  THEN Len(a.ts) >= ReplacerK \/ b.ts[1] < a.ts[1]
  ELSE Len(a.ts) >= ReplacerK /\ b.ts[1] < a.ts[1]

AddToMap(r, f) ==
  LET fresh == f \notin Tracked(r)
      full == r.curr_size = r.replacer_size
      nm == IF fresh THEN (f :> HeapNode) @@ r.node_map ELSE r.node_map
  IN [replacer_size |-> r.replacer_size,
      node_map |-> [nm EXCEPT ![f] = AddTimeStamp(nm[f], r.current_timestamp)],
      curr_size |-> IF fresh /\ ~full THEN r.curr_size + 1 ELSE r.curr_size,
      current_timestamp |-> r.current_timestamp + 1]

RecordAccess(r, f) == AddToMap(r, f)

\* SetEvictable on a tracked frame (the callers below only pass tracked frames)
SetEvictable(r, f, set_evictable) ==
  LET was == r.node_map[f].evict
  IN [r EXCEPT !.node_map[f].evict = set_evictable,
               !.curr_size = IF was /\ ~set_evictable THEN @ - 1
                             ELSE IF ~was /\ set_evictable THEN @ + 1 ELSE @]

\* the scan of DeleteMaxInMap over the frames fs not yet visited; best is the
\* frame held in `frame` (0 at the start) and empty tells maxnode has no
\* timestamps yet
RECURSIVE ScanMax(_, _, _, _)
ScanMax(r, fs, frame, maxnode) ==
  IF fs = {} THEN frame
  ELSE LET f == CHOOSE x \in fs : \A y \in fs : x <= y
           n == r.node_map[f]
       IN IF n.evict /\ (maxnode.ts = <<>> \/ NodeLess(maxnode, n))
          THEN ScanMax(r, fs \ {f}, f, n)
          ELSE ScanMax(r, fs \ {f}, frame, maxnode)

MaxInMap(r) == ScanMax(r, Tracked(r), 0, [ts |-> <<>>, evict |-> FALSE])

\* DeleteMaxInMap: frame 0 doubles as "nothing found" and is never erased
DeleteMaxInMap(r) ==
  LET frame == MaxInMap(r)
  IN IF frame # 0
     THEN [frame |-> frame,
           r |-> [r EXCEPT !.node_map = [g \in Tracked(r) \ {frame} |-> r.node_map[g]],
                           !.curr_size = @ - 1]]
     ELSE [frame |-> 0, r |-> r]

\* Evict: [ok, frame, r]
Evict(r) ==
  LET d == DeleteMaxInMap(r)
  IN [ok |-> d.frame # 0, frame |-> d.frame, r |-> d.r]

\* ---------------------------------------------- stand-alone directory (SpecHT)
VARIABLES
  table,      \* the ExtendibleHashTable<int, int> under test
  ref,        \* the map the calls made so far describe: key -> value or NoValue
  ht_last     \* the last call: [op, key, value, fresh, res]; fresh tells
              \* that an insert's key was not in the map before the call

htvars == <<table, ref, ht_last>>

Keys == {0, 1, 4, 5, 13}
ValuesHT == 0..(MaxValueHT - 1)

InitHT ==
  /\ table = NewTable
  /\ ref = [k \in Keys |-> NoValue]
  /\ ht_last = [op |-> "none", key |-> 0, value |-> NoValue, fresh |-> FALSE, res |-> "ok"]

Live == {k \in Keys : ref[k] # NoValue}

HTInsert(k, v) ==
  /\ ht_last.res = "ok"
  /\ ref[k] # NoValue \/ Cardinality(Live) < MaxLive
  /\ LET r == Insert(table, k, v)
     IN /\ table' = r.ht
        /\ ref' = [ref EXCEPT ![k] = v]
        /\ ht_last' = [op |-> "insert", key |-> k, value |-> v,
                       fresh |-> ref[k] = NoValue, res |-> r.res]

HTRemove(k) ==
  /\ ht_last.res = "ok"
  /\ table' = Remove(table, k)
  /\ ref' = [ref EXCEPT ![k] = NoValue]
  /\ ht_last' = [op |-> "remove", key |-> k, value |-> NoValue,
                 fresh |-> FALSE, res |-> "ok"]

NextHT ==
  \/ \E k \in Keys, v \in ValuesHT : HTInsert(k, v)
  \/ \E k \in Keys : HTRemove(k)


\* ======================================================= buffer pool manager
VARIABLES
  pages,         \* pages_[frame]: [page_id, pin_count, is_dirty, data]
  free_list,     \* free_list_, popped and pushed at the back
  page_table,    \* page_table_: the extendible hash table page id -> frame
  replacer,      \* replacer_: the LRU-K replacer
  next_page_id,  \* next_page_id_
  disk,          \* the disk manager's pages: page id -> contents
  expect,        \* [pid, data]: the page a holder wrote data to and unpinned
                 \* with is_dirty = true; NoExpect once a call other than
                 \* fetch_page names that page
  writes,        \* number of WriteUnpin steps taken
  last           \* the last call: [op, pid, ok, frame, victim, io, res]; a call
                 \* that found no such page keeps the frame holding it instead

bpvars == <<pages, free_list, page_table, replacer, next_page_id, disk, expect, writes, last>>

Frames == 0..(PoolSize - 1)
\* The page ids the callers pass: those new_page hands out, and ids of pages
\* the disk already holds, picked to collide on their low hash bits as the
\* ids of a long-running pool do (0 and 4 share two bits, 5 and 13 three).
PageIds == (0..(MaxNew - 1)) \cup {0, 4, 5, 13}

\* a page id below MaxNew exists once new_page has handed it out
Exists(page_id) == page_id < next_page_id \/ page_id >= MaxNew
Vals == 0..MaxVal
\* the pages whose holders write to the buffer
WrittenIds == {5}

\* Page(): no tenant, unpinned, clean, zeroed buffer
NewPage == [page_id |-> INVALID_PAGE_ID, pin_count |-> 0, is_dirty |-> FALSE, data |-> 0]

Call(op, pid, ok, frame, victim, io, res) ==
  [op |-> op, pid |-> pid, ok |-> ok, frame |-> frame, victim |-> victim,
   io |-> io, res |-> res]

NoExpect == [pid |-> INVALID_PAGE_ID, data |-> 0]

\* a call other than fetch_page that names page_id ends the watch on it
Forget(page_id) == IF expect.pid = page_id THEN NoExpect ELSE expect

InitBP ==
  /\ pages = [f \in Frames |-> NewPage]
  /\ free_list = [i \in 1..PoolSize |-> i - 1]
  /\ page_table = NewTable
  /\ replacer = NewReplacer(PoolSize)
  /\ next_page_id = 0
  /\ disk = [p \in PageIds |-> 0]
  /\ expect = NoExpect
  /\ writes = 0
  /\ last = Call("none", INVALID_PAGE_ID, TRUE, NoFrame, NoFrame, <<>>, "ok")

Running == last.res = "ok"

\* the frame whose page_id_ field names page_id (the lowest, were there two)
Holder(page_id) ==
  IF \E f \in Frames : pages[f].page_id = page_id
  THEN CHOOSE f \in Frames : pages[f].page_id = page_id
                              /\ \A g \in Frames : pages[g].page_id = page_id => f <= g
  ELSE NoFrame

AllPinned == \A f \in Frames : pages[f].pin_count # 0

\* "we firstly find in freelist, then find the replacer": [ok, frame, victim,
\* free_list, replacer]; victim is what Evict handed out, if it was asked
TakeFrame ==
  IF free_list = <<>>
  THEN LET e == Evict(replacer)
       IN [ok |-> e.ok, frame |-> e.frame, victim |-> IF e.ok THEN e.frame ELSE NoFrame,
           free_list |-> free_list, replacer |-> e.r]
  ELSE [ok |-> TRUE, frame |-> free_list[Len(free_list)], victim |-> NoFrame,
        free_list |-> SubSeq(free_list, 1, Len(free_list) - 1), replacer |-> replacer]

DiskWrite(d, pid, data) == IF pid \in PageIds THEN [d EXCEPT ![pid] = data] ELSE d

\* a pool that reuses frames without writing anything back
WriteBackNever(f) == [io |-> <<>>, disk |-> disk]

\* the write-back of the frame's previous tenant: the I/O issued and the disk
WriteBack(f) ==
  IF pages[f].is_dirty
  THEN [io |-> <<<<"write", pages[f].page_id, pages[f].data>>>>,
        disk |-> DiskWrite(disk, pages[f].page_id, pages[f].data)]
  ELSE [io |-> <<>>, disk |-> disk]

\* a pool that records the access and leaves the frame evictable
TrackEvictable(r, f) == RecordAccess(r, f)

\* RecordAccess, then SetEvictable(frame_id, false), of the frame handed out
Track(r, f) == SetEvictable(RecordAccess(r, f), f, FALSE)

\* what NewPgImp leaves in the frame it hands out
NewPgFrame(pre, pid) ==
  [pre EXCEPT !.is_dirty = FALSE, !.page_id = pid, !.pin_count = @ + 1]

\* BufferPoolManagerInstance::NewPgImp
NewPgImp ==
  /\ Running
  /\ next_page_id < MaxNew
  /\ replacer.current_timestamp < MaxTime
  /\ IF AllPinned
     THEN /\ last' = Call("new", INVALID_PAGE_ID, FALSE, NoFrame, NoFrame, <<>>, "ok")
          /\ UNCHANGED <<pages, free_list, page_table, replacer, next_page_id, disk, expect, writes>>
     ELSE LET t == TakeFrame
          IN IF ~t.ok
             THEN /\ last' = Call("new", INVALID_PAGE_ID, FALSE, NoFrame, NoFrame, <<>>, "ok")
                  /\ replacer' = t.replacer
                  /\ UNCHANGED <<pages, free_list, page_table, next_page_id, disk, expect, writes>>
             ELSE LET f == t.frame
                      wb == WriteBack(f)
                      pid == next_page_id
                      pt1 == Remove(page_table, pages[f].page_id)
                      ins == Insert(pt1, pid, f)
                      io == wb.io \o <<<<"bind", f, pid>>>>
                  IN /\ free_list' = t.free_list
                     /\ disk' = wb.disk
                     /\ next_page_id' = next_page_id + 1
                     /\ pages' = [pages EXCEPT ![f] = NewPgFrame(pages[f], pid)]
                     /\ page_table' = ins.ht
                     /\ expect' = Forget(pid)
                     /\ UNCHANGED writes
                     /\ IF ins.res = "ok"
                        THEN /\ replacer' = Track(t.replacer, f)
                             /\ last' = Call("new", pid, TRUE, f, t.victim, io, "ok")
                        ELSE /\ replacer' = t.replacer
                             /\ last' = Call("new", pid, FALSE, f, t.victim, io, ins.res)

\* BufferPoolManagerInstance::FetchPgImp
FetchPgImp(page_id) ==
  /\ Running
  /\ Exists(page_id)
  /\ LET found == Find(page_table, page_id)
     IN IF found.found
        THEN /\ last' = Call("fetch_hit", page_id, TRUE, found.value, NoFrame, <<>>, "ok")
             /\ UNCHANGED <<pages, free_list, page_table, replacer, next_page_id, disk, expect, writes>>
        ELSE IF AllPinned
        THEN /\ last' = Call("fetch", INVALID_PAGE_ID, FALSE, NoFrame, NoFrame, <<>>, "ok")
             /\ UNCHANGED <<pages, free_list, page_table, replacer, next_page_id, disk, expect, writes>>
        ELSE /\ replacer.current_timestamp < MaxTime
             /\ LET t == TakeFrame
                IN IF ~t.ok
                   THEN /\ last' = Call("fetch", INVALID_PAGE_ID, FALSE, NoFrame, NoFrame, <<>>, "ok")
                        /\ replacer' = t.replacer
                        /\ UNCHANGED <<pages, free_list, page_table, next_page_id, disk, expect, writes>>
                   ELSE LET f == t.frame
                            wb == WriteBack(f)
                            pt1 == Remove(page_table, pages[f].page_id)
                            ins == Insert(pt1, page_id, f)
                            io == wb.io \o <<<<"read", page_id>>, <<"bind", f, page_id>>>>
                        IN /\ free_list' = t.free_list
                           /\ disk' = wb.disk
                           /\ pages' = [pages EXCEPT ![f] =
                                          [page_id |-> page_id, pin_count |-> pages[f].pin_count + 1,
                                           is_dirty |-> FALSE, data |-> wb.disk[page_id]]]
                           /\ page_table' = ins.ht
                           /\ UNCHANGED <<next_page_id, expect, writes>>
                           /\ IF ins.res = "ok"
                              THEN /\ replacer' = Track(t.replacer, f)
                                   /\ last' = Call("fetch", page_id, TRUE, f, t.victim, io, "ok")
                              ELSE /\ replacer' = t.replacer
                                   /\ last' = Call("fetch", page_id, FALSE, f, t.victim, io, ins.res)

\* BufferPoolManagerInstance::UnpinPgImp, called on the frames pre; wrote says
\* that the caller filled the buffer just before the call
UnpinPgCall(pre, page_id, is_dirty, wrote) ==
  LET found == Find(page_table, page_id)
      f == found.value
  IN IF ~found.found \/ pre[f].pin_count = 0
     THEN /\ last' = Call("unpin", INVALID_PAGE_ID, FALSE, NoFrame, NoFrame, <<>>, "ok")
          /\ UNCHANGED <<pages, free_list, page_table, replacer, next_page_id, disk, expect, writes>>
     ELSE /\ pages' = [pre EXCEPT ![f].is_dirty = IF is_dirty THEN TRUE ELSE @,
                                  ![f].pin_count = @ - 1]
          /\ replacer' = IF pre[f].pin_count = 1
                         THEN SetEvictable(replacer, f, TRUE) ELSE replacer
          /\ expect' = IF wrote THEN [pid |-> page_id, data |-> pre[f].data]
                       ELSE Forget(page_id)
          /\ writes' = IF wrote THEN writes + 1 ELSE writes
          /\ last' = Call(IF wrote THEN "write_unpin" ELSE "unpin",
                          page_id, TRUE, f, NoFrame, <<>>, "ok")
          /\ UNCHANGED <<free_list, page_table, next_page_id, disk>>

UnpinPgImp(page_id, is_dirty) ==
  /\ Running
  /\ Exists(page_id)
  /\ UnpinPgCall(pages, page_id, is_dirty, FALSE)

\* the holder of a pinned page fills the frame's buffer with v and hands the
\* page back with unpin_page(page_id, true)
WriteUnpin(page_id, v) ==
  /\ Running
  /\ Exists(page_id)
  /\ writes < MaxWrites
  /\ LET found == Find(page_table, page_id)
         f == found.value
     IN /\ found.found
        /\ pages[f].pin_count > 0
        /\ pages[f].data # v
        /\ UnpinPgCall([pages EXCEPT ![f].data = v], page_id, TRUE, TRUE)

\* BufferPoolManagerInstance::FlushPgImp
FlushPgImp(page_id) ==
  /\ Running
  /\ Exists(page_id)
  /\ LET found == Find(page_table, page_id)
         f == found.value
     IN IF ~found.found
        THEN /\ last' = Call("flush", INVALID_PAGE_ID, FALSE, NoFrame, NoFrame, <<>>, "ok")
             /\ UNCHANGED <<pages, free_list, page_table, replacer, next_page_id, disk, expect, writes>>
        ELSE /\ disk' = DiskWrite(disk, page_id, pages[f].data)
             /\ pages' = [pages EXCEPT ![f].is_dirty = FALSE]
             /\ expect' = Forget(page_id)
             /\ last' = Call("flush", page_id, TRUE, f, NoFrame,
                             <<<<"write", page_id, pages[f].data>>>>, "ok")
             /\ UNCHANGED <<free_list, page_table, replacer, next_page_id, writes>>

\* the loop of FlushAllPgsImp over the frames from f on
RECURSIVE FlushFrom(_, _)
FlushFrom(f, d) ==
  IF f = PoolSize THEN d
  ELSE FlushFrom(f + 1, IF pages[f].page_id # INVALID_PAGE_ID
                        THEN DiskWrite(d, pages[f].page_id, pages[f].data) ELSE d)

\* BufferPoolManagerInstance::FlushAllPgsImp
FlushAllPgsImp ==
  /\ Running
  /\ disk' = FlushFrom(0, disk)
  /\ pages' = [f \in Frames |-> IF pages[f].page_id # INVALID_PAGE_ID
                                THEN [pages[f] EXCEPT !.is_dirty = FALSE] ELSE pages[f]]
  /\ expect' = NoExpect
  /\ last' = Call("flush_all", INVALID_PAGE_ID, TRUE, NoFrame, NoFrame, <<>>, "ok")
  /\ UNCHANGED <<free_list, page_table, replacer, next_page_id, writes>>

\* the value DeletePgImp returns once it has freed the frame
DeletedRet == FALSE

\* BufferPoolManagerInstance::DeletePgImp
DeletePgImp(page_id) ==
  /\ Running
  /\ Exists(page_id)
  /\ expect' = Forget(page_id)
  /\ UNCHANGED writes
  /\ LET found == Find(page_table, page_id)
         f == found.value
     IN IF ~found.found
        THEN /\ last' = Call("delete_absent", INVALID_PAGE_ID, TRUE, Holder(page_id), NoFrame, <<>>, "ok")
             /\ UNCHANGED <<pages, free_list, page_table, replacer, next_page_id, disk>>
        ELSE IF pages[f].pin_count > 0
        THEN /\ last' = Call("delete_pinned", page_id, FALSE, f, NoFrame, <<>>, "ok")
             /\ UNCHANGED <<pages, free_list, page_table, replacer, next_page_id, disk>>
        ELSE LET wb == WriteBack(f)
             IN /\ disk' = wb.disk
                /\ page_table' = Remove(page_table, page_id)
                /\ free_list' = Append(free_list, f)
                /\ pages' = [pages EXCEPT ![f].is_dirty = FALSE,
                                          ![f].page_id = INVALID_PAGE_ID,
                                          ![f].data = 0]
                /\ last' = Call("delete", page_id, DeletedRet, f, NoFrame, wb.io, "ok")
                /\ UNCHANGED <<replacer, next_page_id>>

\* ================================================ stand-alone replacer (SpecLRU)
VARIABLES
  lru,        \* the LRUKReplacer under test
  lru_latch,  \* latch_ is locked
  lru_last    \* the last call: [op, frame, ok, res]; res is "throw" when the
              \* call left by an exception

lruvars == <<lru, lru_latch, lru_last>>

\* the frame ids the calls pass: the valid ones and one AddToMap refuses
FrameIds == (0..(ReplacerSize - 1)) \cup {ReplacerSize + 1}

LRUCall(op, frame, ok, res) == [op |-> op, frame |-> frame, ok |-> ok, res |-> res]

InitLRU ==
  /\ lru = NewReplacer(ReplacerSize)
  /\ lru_latch = FALSE
  /\ lru_last = LRUCall("none", NoFrame, TRUE, "ok")

\* LRUKReplacer::RecordAccess; a call made while latch_ is locked waits
LRUKRecordAccess(f) ==
  /\ ~lru_latch
  /\ lru.current_timestamp < MaxTimeLRU
  /\ IF f > lru.replacer_size
     THEN /\ lru' = lru
          /\ lru_latch' = TRUE
          /\ lru_last' = LRUCall("record_access", f, FALSE, "throw")
     ELSE /\ lru' = RecordAccess(lru, f)
          /\ lru_latch' = FALSE
          /\ lru_last' = LRUCall("record_access", f, TRUE, "ok")

\* LRUKReplacer::SetEvictable
LRUKSetEvictable(f, set_evictable) ==
  /\ ~lru_latch
  /\ IF f \in Tracked(lru)
     THEN /\ lru' = SetEvictable(lru, f, set_evictable)
          /\ lru_latch' = FALSE
          /\ lru_last' = LRUCall("set_evictable", f, TRUE, "ok")
     ELSE /\ lru' = lru
          /\ lru_latch' = TRUE
          /\ lru_last' = LRUCall("set_evictable", f, FALSE, "throw")

\* LRUKReplacer::Evict
LRUKEvict ==
  /\ ~lru_latch
  /\ LET e == Evict(lru)
     IN /\ lru' = e.r
        /\ lru_latch' = FALSE
        /\ lru_last' = LRUCall("evict", e.frame, e.ok, "ok")

\* LRUKReplacer::Remove: node_map_[frame_id] makes a HeapNode() for a frame
\* that has none, and the erase takes it away again
LRUKRemove(f) ==
  /\ ~lru_latch
  /\ LET node == IF f \in Tracked(lru) THEN lru.node_map[f] ELSE HeapNode
     IN IF node.evict
        THEN /\ lru' = [lru EXCEPT !.node_map = [g \in Tracked(lru) \ {f} |-> lru.node_map[g]]]
             /\ lru_latch' = FALSE
             /\ lru_last' = LRUCall("remove", f, TRUE, "ok")
        ELSE /\ lru' = lru
             /\ lru_latch' = TRUE
             /\ lru_last' = LRUCall("remove", f, FALSE, "throw")

NextLRU ==
  \/ \E f \in FrameIds : LRUKRecordAccess(f)
  \/ \E f \in FrameIds, b \in BOOLEAN : LRUKSetEvictable(f, b)
  \/ LRUKEvict
  \/ \E f \in FrameIds : LRUKRemove(f)

\* ================================== Find beside Insert, two threads (SpecRace)
\* One thread runs Insert(key, value) statement by statement under latch_; the
\* other runs Find(present.key), which takes no latch. A read the code makes of
\* memory the other thread is changing has no defined outcome.
VARIABLES
  race_table,  \* the ExtendibleHashTable<int, int> both threads use
  race_latch,  \* latch_ is locked
  present,     \* [key, value]: the entry inserted before both calls; the
               \* key is NoValue until then
  ins,         \* the Insert call: [pc, key, value, index, bucket, items]
  fnd          \* the Find call: [pc, idx, bucket, raced, res]

racevars == <<race_table, race_latch, present, ins, fnd>>

RaceKeys == {0, 1, 4, 5}

NoResult == [found |-> FALSE, value |-> NoValue]

InitRace ==
  /\ present = [key |-> NoValue, value |-> NoValue]
  /\ race_table = NewTable
  /\ race_latch = FALSE
  /\ ins = [pc |-> "idle", key |-> 0, value |-> 0, index |-> 0, bucket |-> 0, items |-> <<>>]
  /\ fnd = [pc |-> "idle", idx |-> 0, bucket |-> 0, raced |-> FALSE, res |-> NoResult]

\* Insert(k, v) called and returned before the two threads start
InsertBefore(k, v) ==
  /\ present.key = NoValue
  /\ present' = [key |-> k, value |-> v]
  /\ race_table' = Insert(race_table, k, v).ht
  /\ UNCHANGED <<race_latch, ins, fnd>>

\* the Find call once the list of bucket b is changed: a scan of that list
\* under way reads it while it changes
Scanned(b) ==
  IF fnd.pc = "scan" /\ fnd.bucket = b THEN [fnd EXCEPT !.raced = TRUE] ELSE fnd

\* Insert: std::lock_guard guard(latch_)
InsertLock(k, v) ==
  /\ ins.pc = "idle"
  /\ ~race_latch
  /\ present.key # NoValue
  /\ k # present.key
  /\ race_latch' = TRUE
  /\ ins' = [ins EXCEPT !.pc = "try", !.key = k, !.value = v]
  /\ UNCHANGED <<race_table, present, fnd>>

\* Insert: success = dir_[IndexOf(key)]->Insert(key, value), then break and
\* return, or enter RedistributeBucket(dir_[IndexOf(key)], IndexOf(key))
InsertTry ==
  /\ ins.pc = "try"
  /\ LET idx == IndexOf(race_table, ins.key)
         id == race_table.dir[idx + 1]
         r == BucketInsert(race_table.buckets[id], ins.key, ins.value)
     IN IF r.res = "ok"
        THEN /\ race_table' = [race_table EXCEPT !.buckets[id] = r.b]
             /\ fnd' = Scanned(id)
             /\ ins' = [ins EXCEPT !.pc = "done"]
             /\ race_latch' = FALSE
        ELSE /\ ins' = [ins EXCEPT !.pc = "redistribute", !.index = idx, !.bucket = id]
             /\ UNCHANGED <<race_table, race_latch, fnd>>
  /\ UNCHANGED present

\* RedistributeBucket: if (bucket->GetDepth() == global_depth_)
RedistributeEnter ==
  /\ ins.pc = "redistribute"
  /\ ins' = [ins EXCEPT !.pc = IF race_table.buckets[ins.bucket].depth = race_table.global_depth
                                THEN "doubling" ELSE "split"]
  /\ UNCHANGED <<race_table, race_latch, present, fnd>>

\* RedistributeBucket: the push_back loop over dir_ and global_depth_++
RedistributeDouble ==
  /\ ins.pc = "doubling"
  /\ race_table.global_depth < MaxDepth
  /\ race_table' = [race_table EXCEPT !.dir = race_table.dir \o race_table.dir,
                                      !.global_depth = race_table.global_depth + 1]
  /\ ins' = [ins EXCEPT !.pc = "split"]
  /\ UNCHANGED <<race_latch, present, fnd>>

\* RedistributeBucket: IncrementDepth, GetItems, split_idx and
\* dir_[split_idx] = std::make_shared<Bucket>(...)
RedistributeSplit ==
  /\ ins.pc = "split"
  /\ LET h2 == [race_table EXCEPT !.buckets[ins.bucket].depth = @ + 1]
         split_idx == SplitIdx(ins.index, h2.global_depth)
         nid == FreshId(h2)
     IN /\ race_table' = [h2 EXCEPT !.dir[split_idx + 1] = nid,
                                    !.buckets = (nid :> [depth |-> h2.buckets[ins.bucket].depth,
                                                         list |-> <<>>]) @@ h2.buckets]
        /\ ins' = [ins EXCEPT !.pc = "move", !.items = h2.buckets[ins.bucket].list]
  /\ UNCHANGED <<race_latch, present, fnd>>

\* RedistributeBucket: the loop over the copied list; for an item that no
\* longer belongs at index, dir_[index]->Remove(key); back to the while (true)
\* of Insert once the list is through
RedistributeRemove ==
  /\ ins.pc = "move"
  /\ IF ins.items = <<>>
     THEN /\ ins' = [ins EXCEPT !.pc = "try"]
          /\ UNCHANGED <<race_table, fnd>>
     ELSE LET k == Head(ins.items)[1]
              to == IndexOfDepth(k, race_table.buckets[ins.bucket].depth)
              src == race_table.dir[ins.index + 1]
          IN IF to # ins.index
             THEN /\ race_table' = [race_table EXCEPT !.buckets[src] = BucketRemove(@, k)]
                  /\ fnd' = Scanned(src)
                  /\ ins' = [ins EXCEPT !.pc = "moved"]
             ELSE /\ ins' = [ins EXCEPT !.items = Tail(ins.items)]
                  /\ UNCHANGED <<race_table, fnd>>
  /\ UNCHANGED <<race_latch, present>>

\* RedistributeBucket: dir_[IndexOfDepth(key, depth)]->Insert(key, value) of
\* the item just removed
RedistributeInsert ==
  /\ ins.pc = "moved"
  /\ LET k == Head(ins.items)[1]
         v == Head(ins.items)[2]
         to == IndexOfDepth(k, race_table.buckets[ins.bucket].depth)
         dst == race_table.dir[to + 1]
         r == BucketInsert(race_table.buckets[dst], k, v)
     IN /\ r.res # "hang"
        /\ race_table' = [race_table EXCEPT !.buckets[dst] = r.b]
        /\ fnd' = Scanned(dst)
        /\ ins' = [ins EXCEPT !.pc = "move", !.items = Tail(ins.items)]
  /\ UNCHANGED <<race_latch, present>>

\* Find: IndexOf(key) reads global_depth_; no latch is taken
FindIndex ==
  /\ fnd.pc = "idle"
  /\ present.key # NoValue
  /\ fnd' = [fnd EXCEPT !.pc = "index", !.idx = IndexOf(race_table, present.key)]
  /\ UNCHANGED <<race_table, race_latch, present, ins>>

\* Find: dir_[...] reads the slot; the vector may be growing meanwhile
FindSlot ==
  /\ fnd.pc = "index"
  /\ fnd' = [fnd EXCEPT !.pc = "scan", !.bucket = race_table.dir[fnd.idx + 1],
                         !.raced = (ins.pc = "doubling")]
  /\ UNCHANGED <<race_table, race_latch, present, ins>>

\* Find: Bucket::Find scans the list and returns
FindScan ==
  /\ fnd.pc = "scan"
  /\ \E res \in IF fnd.raced
                THEN {NoResult, [found |-> TRUE, value |-> present.value]}
                ELSE {BucketFind(race_table.buckets[fnd.bucket], present.key)} :
       fnd' = [fnd EXCEPT !.pc = "done", !.res = res]
  /\ UNCHANGED <<race_table, race_latch, present, ins>>

NextRace ==
  \/ \E k \in RaceKeys, v \in ValuesHT : InsertBefore(k, v)
  \/ \E k \in RaceKeys, v \in ValuesHT : InsertLock(k, v)
  \/ InsertTry
  \/ RedistributeEnter
  \/ RedistributeDouble
  \/ RedistributeSplit
  \/ RedistributeRemove
  \/ RedistributeInsert
  \/ FindIndex
  \/ FindSlot
  \/ FindScan

\* ============================================ plain LRU replacer (SpecLRUPlain)
\* The doubly linked list between dummy_ and tail_ is the sequence queue, the
\* node after dummy_ first; node_map_ has the frames of queue as its keys.
VARIABLES
  queue,       \* cur_frame_ of the nodes from dummy_->next_ to tail_->pre_
  size_,       \* size_
  plain_last   \* the last call: [op, frame, ok, res]; res is "crash" or
               \* "undefined" once a call dereferenced a null pointer

plainvars == <<queue, size_, plain_last>>

\* the frame ids the calls pass
PlainFrames == 0..NumPages

\* dummy_ = new DqueueNode(0)
DummyFrame == 0

InitPlain ==
  /\ queue = <<>>
  /\ size_ = 0
  /\ plain_last = LRUCall("none", NoFrame, TRUE, "ok")

\* LRUReplacer::GetTail: tail_->pre_ is dummy_ when no frame is queued
GetTail == IF queue = <<>> THEN DummyFrame ELSE queue[Len(queue)]

\* the queue without frame f (RemoveNode and node_map_.erase)
Without(f) == SelectSeq(queue, LAMBDA g : g # f)

\* LRUReplacer::Victim. With no frame queued GetTail() is 0, not -1, and
\* node_map_[0] is a null pointer handed to RemoveNode: the call crashes, or
\* runs on through erase and size_-- and returns true.
Victim ==
  /\ plain_last.res = "ok"
  /\ IF GetTail = -1
     THEN /\ plain_last' = LRUCall("victim", NoFrame, FALSE, "ok")
          /\ UNCHANGED <<queue, size_>>
     ELSE IF queue = <<>>
     THEN \/ /\ plain_last' = LRUCall("victim", GetTail, FALSE, "crash")
             /\ UNCHANGED <<queue, size_>>
          \/ /\ plain_last' = LRUCall("victim", GetTail, TRUE, "undefined")
             /\ size_' = size_ - 1
             /\ UNCHANGED queue
     ELSE /\ plain_last' = LRUCall("victim", GetTail, TRUE, "ok")
          /\ queue' = Without(GetTail)
          /\ size_' = size_ - 1

\* LRUReplacer::Pin
Pin(f) ==
  /\ plain_last.res = "ok"
  /\ plain_last' = LRUCall("pin", f, TRUE, "ok")
  /\ IF \E i \in 1..Len(queue) : queue[i] = f
     THEN queue' = Without(f) /\ size_' = size_ - 1
     ELSE UNCHANGED <<queue, size_>>

\* LRUReplacer::Unpin. With size_ == capacity_ it calls RemoveNode(tail_),
\* which writes through tail_->next_, a null pointer.
Unpin(f) ==
  /\ plain_last.res = "ok"
  /\ IF \E i \in 1..Len(queue) : queue[i] = f
     THEN /\ plain_last' = LRUCall("unpin", f, TRUE, "ok")
          /\ UNCHANGED <<queue, size_>>
     ELSE IF size_ = NumPages
     THEN /\ \E res \in {"crash", "undefined"} :
               plain_last' = LRUCall("unpin", f, FALSE, res)
          /\ UNCHANGED <<queue, size_>>
     ELSE /\ plain_last' = LRUCall("unpin", f, TRUE, "ok")
          /\ queue' = <<f>> \o queue
          /\ size_' = size_ + 1

NextPlain ==
  \/ Victim
  \/ \E f \in PlainFrames : Pin(f)
  \/ \E f \in PlainFrames : Unpin(f)

vars == <<bpvars, htvars, lruvars, racevars, plainvars>>

Init == InitBP /\ InitHT /\ InitLRU /\ InitRace /\ InitPlain

Next ==
  \/ NewPgImp /\ UNCHANGED <<htvars, lruvars, racevars, plainvars>>
  \/ \E p \in PageIds : FetchPgImp(p) /\ UNCHANGED <<htvars, lruvars, racevars, plainvars>>
  \/ \E p \in PageIds, d \in BOOLEAN : UnpinPgImp(p, d) /\ UNCHANGED <<htvars, lruvars, racevars, plainvars>>
  \/ \E p \in PageIds : FlushPgImp(p) /\ UNCHANGED <<htvars, lruvars, racevars, plainvars>>
  \/ FlushAllPgsImp /\ UNCHANGED <<htvars, lruvars, racevars, plainvars>>
  \/ \E p \in PageIds : DeletePgImp(p) /\ UNCHANGED <<htvars, lruvars, racevars, plainvars>>

NextData ==
  \/ Next
  \/ \E p \in WrittenIds, v \in Vals : WriteUnpin(p, v) /\ UNCHANGED <<htvars, lruvars, racevars, plainvars>>

Spec == Init /\ [][Next]_vars

SpecData == Init /\ [][NextData]_vars

SpecHT == Init /\ [][NextHT /\ UNCHANGED <<bpvars, lruvars, racevars, plainvars>>]_vars

SpecLRU == Init /\ [][NextLRU /\ UNCHANGED <<bpvars, htvars, racevars, plainvars>>]_vars

SpecRace == Init /\ [][NextRace /\ UNCHANGED <<bpvars, htvars, lruvars, plainvars>>]_vars

SpecLRUPlain == Init /\ [][NextPlain /\ UNCHANGED <<bpvars, htvars, lruvars, racevars>>]_vars

\* the split loops stay within the explored directory depth
NoDeep == last.res # "deep" /\ ht_last.res # "deep"

\* ==================================================================== claims

\* what the pool holds apart from the record of the last call
core == <<pages, free_list, page_table, replacer, next_page_id, disk>>

FreeFrames == {free_list[i] : i \in 1..Len(free_list)}

C2_FetchHitPins ==
  [][last'.op = "fetch_hit"
       => /\ pages'[last'.frame].pin_count = pages[last'.frame].pin_count + 1
          /\ ~replacer'.node_map[last'.frame].evict
          /\ replacer'.current_timestamp = replacer.current_timestamp + 1
          /\ last'.io = <<>> /\ disk' = disk]_vars

\* C3: new_page, and fetch_page of a page the directory does not hold, return
\* absent exactly when every frame is pinned.
C3_AbsentIffAllPinned ==
  [][last'.op \in {"new", "fetch"} /\ last'.res = "ok"
       => (last'.ok <=> ~AllPinned)]_vars

Writes(io) == {i \in 1..Len(io) : io[i][1] = "write"}
Binds(io) == {i \in 1..Len(io) : io[i][1] = "bind"}

\* C4: when new_page or fetch_page takes a frame whose page is dirty, it
\* issues exactly one write_page(old page id, frame data), before the frame is
\* bound to the new page id; when the frame is clean it issues no write.
C4_WriteBackBeforeRebind ==
  [][(last'.op \in {"new", "fetch"} /\ last'.frame # NoFrame)
       => LET old == pages[last'.frame]
              io == last'.io
          IN IF old.is_dirty
             THEN /\ Writes(io) = {1}
                  /\ io[1] = <<"write", old.page_id, old.data>>
                  /\ \A b \in Binds(io) : b > 1
                  /\ disk'[old.page_id] = old.data
             ELSE Writes(io) = {} /\ disk' = disk]_vars

\* a frame holding written data was written back and handed to another page
C4_Witness ==
  /\ last.op \in {"new", "fetch"}
  /\ last.ok
  /\ last.victim # NoFrame
  /\ Len(last.io) > 1
  /\ last.io[1] = <<"write", expect.pid, MaxVal>>
  /\ disk[expect.pid] = MaxVal
  /\ pages[last.victim].page_id = last.pid

\* C5: delete_page of a resident unpinned page returns true and leaves the
\* page out of the directory, its frame unbound, zeroed and on the free list;
\* delete_page of a page that is not resident returns true.
C5_DeleteReturnsTrue ==
  /\ last.op = "delete"
       => /\ last.ok
          /\ ~Find(page_table, last.pid).found
          /\ pages[last.frame].page_id = INVALID_PAGE_ID
          /\ pages[last.frame].data = 0
          /\ last.frame \in FreeFrames
  /\ (last.op = "delete_absent" /\ last.frame = NoFrame) => last.ok

\* C6: delete_page of a page held by a frame with pin_count > 0 returns false
\* and changes nothing in the pool, and writes nothing to disk.
C6_DeletePinnedRefused ==
  [][(/\ last'.op \in {"delete", "delete_absent", "delete_pinned"}
      /\ last'.frame # NoFrame
      /\ pages[last'.frame].pin_count > 0)
       => ~last'.ok /\ UNCHANGED core /\ last'.io = <<>>]_vars

\* C7: a successful new_page returns an id above every id handed out before,
\* and leaves the frame with that page_id, pin_count 1, clean and zeroed, also
\* when the frame held another page before.
C7_NewPageFresh ==
  [][(last'.op = "new" /\ last'.ok)
       => /\ last'.pid >= next_page_id
          /\ next_page_id' > last'.pid
          /\ pages'[last'.frame] = [page_id |-> last'.pid, pin_count |-> 1,
                                    is_dirty |-> FALSE, data |-> 0]]_vars

\* C8: once a page was written and unpinned with is_dirty = true, a later
\* successful fetch_page of it returns a buffer holding the value written,
\* whatever was done to other pages in between.
C8_FetchSeesWrite ==
  (last.op \in {"fetch", "fetch_hit"} /\ last.ok /\ last.pid = expect.pid)
    => pages[last.frame].data = expect.data

\* C9: find(key) returns the value of the latest insert of key not removed
\* since, and nothing for any other key.
C9_DirectoryIsMap ==
  ht_last.res = "ok"
    => \A k \in Keys : Find(table, k) = [found |-> ref[k] # NoValue, value |-> ref[k]]

\* C10: insert of a key that is not present returns, with the key stored.
C10_InsertTerminates ==
  (ht_last.op = "insert" /\ ht_last.fresh)
    => /\ ht_last.res = "ok"
       /\ Find(table, ht_last.key) = [found |-> TRUE, value |-> ht_last.value]

\* the buckets the directory of ht refers to, and the slots 0 .. that refer to b
Reachable(ht) == {ht.dir[i] : i \in 1..Len(ht.dir)}
SlotsOf(ht, b) == {i - 1 : i \in {j \in 1..Len(ht.dir) : ht.dir[j] = b}}
Entries(ht) == UNION {Items(ht.buckets[b]) : b \in Reachable(ht)}

\* C11: insert of a key already present in its bucket returns, find then
\* yields the new value, and the entries' keys, the global depth, the local
\* depths and the directory bindings are as before.
C11_OverwriteReturns ==
  [][(ht_last'.op = "insert" /\ Find(table, ht_last'.key).found)
       => /\ ht_last'.res = "ok"
          /\ Find(table', ht_last'.key) = [found |-> TRUE, value |-> ht_last'.value]
          /\ Cardinality(Entries(table')) = Cardinality(Entries(table))
          /\ table'.global_depth = table.global_depth
          /\ table'.dir = table.dir
          /\ \A b \in Reachable(table) : table'.buckets[b].depth = table.buckets[b].depth]_vars

\* C12: after a completed insert or remove, num_buckets is the number of
\* distinct buckets the directory refers to.
C12_NumBucketsCounts ==
  ht_last.res = "ok" => table.num_buckets = Cardinality(Reachable(table))

\* the tracked frames of r whose evictable flag is set
Evictable(r) == {f \in Tracked(r) : r.node_map[f].evict}

\* C13: evict() returns a frame exactly when some tracked frame is evictable;
\* the frame returned was evictable, is no longer tracked afterwards and
\* size() is one less; frame id 0 included.
C13_EvictIffEvictable ==
  [][lru_last'.op = "evict"
       => /\ lru_last'.ok <=> Evictable(lru) # {}
          /\ lru_last'.ok
               => /\ lru_last'.frame \in Evictable(lru)
                  /\ lru_last'.frame \notin Tracked(lru')
                  /\ lru'.curr_size = lru.curr_size - 1]_vars

\* C14: after any sequence of record_access, set_evictable, evict and remove
\* calls, size() is the number of tracked frames whose evictable flag is set,
\* and so is at most replacer_size.
C14_SizeCountsEvictable ==
  lru_last.res = "ok"
    => /\ lru.curr_size = Cardinality(Evictable(lru))
       /\ lru.curr_size <= lru.replacer_size

\* the frame LRU-K names among the evictable frames of r: with frames of
\* fewer than ReplacerK accesses, the one first accessed earliest; otherwise
\* the one whose ReplacerK-th most recent access is the oldest
Young(r) == {f \in Evictable(r) : Len(r.node_map[f].ts) < ReplacerK}
Oldest(r, fs) == CHOOSE f \in fs : \A g \in fs : r.node_map[f].ts[1] <= r.node_map[g].ts[1]
Best(r) == IF Young(r) # {} THEN Oldest(r, Young(r)) ELSE Oldest(r, Evictable(r))

\* C15: evict() picks, among the evictable frames, the one with fewer than K
\* recorded accesses whose first access is the earliest if there is one, and
\* otherwise the one with the greatest backward K-distance.
C15_EvictPicksBest ==
  [][(lru_last'.op = "evict" /\ Evictable(lru) # {})
       => lru_last'.ok /\ lru_last'.frame = Best(lru)]_vars

\* C16: after every completed call on the pool, every frame bound to a page
\* is what the directory finds under that page id, every directory entry
\* pid -> fid has pages[fid].page_id = pid, and no two frames hold the same
\* page id.
C16_DirectoryMatchesFrames ==
  last.res = "ok"
    => /\ \A f \in Frames : pages[f].page_id # INVALID_PAGE_ID
             => Find(page_table, pages[f].page_id) = [found |-> TRUE, value |-> f]
       /\ \A e \in Entries(page_table) : pages[e[2]].page_id = e[1]
       /\ \A f, g \in Frames : (f # g /\ pages[f].page_id # INVALID_PAGE_ID)
             => pages[f].page_id # pages[g].page_id

\* C17: after every completed call on the pool, a frame is an evictable
\* candidate in the replacer exactly when its pin_count is 0 and it is bound
\* to a page; a frame freed by delete_page has no replacer entry and is not
\* counted by the replacer's size.
C17_CandidateIffUnpinnedBound ==
  last.res = "ok"
    => /\ \A f \in Frames :
             f \in Evictable(replacer)
               <=> (pages[f].pin_count = 0 /\ pages[f].page_id # INVALID_PAGE_ID)
       /\ last.op = "delete"
             => /\ last.frame \notin Tracked(replacer)
                /\ replacer.curr_size = Cardinality(Evictable(replacer) \ {last.frame})

\* C18: after every completed insert or remove, the directory has
\* 2^global_depth slots, and for every bucket b with local depth d the slots
\* that refer to b are exactly the slots whose low d bits are those of one
\* of them, so that every stored key sits in the bucket of its own slot.
C18_SlotsShareSuffix ==
  ht_last.res = "ok"
    => /\ Len(table.dir) = Pow2(table.global_depth)
       /\ \A b \in Reachable(table) :
            LET d == table.buckets[b].depth
                sig == (CHOOSE i \in SlotsOf(table, b) : TRUE) % Pow2(d)
            IN SlotsOf(table, b) = {i \in 0..(Len(table.dir) - 1) : i % Pow2(d) = sig}
       /\ \A b \in Reachable(table) : \A e \in Items(table.buckets[b]) :
            table.dir[IndexOf(table, e[1]) + 1] = b

\* C20: every replacer call leaves latch_ unlocked, also when it leaves by
\* an exception, so that the next call is not kept waiting.
C20_LatchReleased ==
  lru_last.op # "none" => ~lru_latch

\* C19: find(k) run by one thread while another runs insert(k', v'), k' # k,
\* returns the value k was inserted with before both calls, whatever the
\* interleaving.
C19_FindBesideInsert ==
  fnd.pc = "done" => fnd.res = [found |-> TRUE, value |-> present.value]

\* C21: Victim on a plain LRU replacer that holds no frame returns false,
\* reports no frame and leaves the replacer as it was, with size 0; Victim
\* returns true only with a queued frame, the one unpinned longest ago.
C21_VictimOnEmpty ==
  [][plain_last'.op = "victim"
       => IF queue = <<>>
          THEN /\ plain_last'.res = "ok"
               /\ ~plain_last'.ok
               /\ plain_last'.frame = NoFrame
               /\ queue' = queue /\ size_' = 0
          ELSE plain_last'.ok
                 => /\ plain_last'.frame = queue[Len(queue)]
                    /\ \A i \in 1..Len(queue') : queue'[i] # plain_last'.frame]_vars

====
